---- MODULE Spec2Model ----
(***************************************************************************)
(* Model of the Graph class of src/src/graph.py: an adjacency-list graph   *)
(* (dict: node name -> set of (neighbour, weight) tuples) with node and    *)
(* edge editing methods, and the class-level counter that generates        *)
(* default node names.                                                     *)
(*                                                                         *)
(* Optional values: Python's None is the empty tuple <<>>, a present value *)
(* x is the 1-tuple <<x>>.  Edge weights are stored in this form, so an    *)
(* adjacency tuple is <<neighbour, None>> or <<neighbour, <<5>> >>.        *)
(*                                                                         *)
(* Every method raises ValueError; the model tells the raises apart by     *)
(* their message: "does not exist" is NotFound, "already exists" is        *)
(* AlreadyExists, "No edge exists" is EdgeNotFound.                        *)
(***************************************************************************)
EXTENDS Integers, FiniteSets, Sequences, TLC

VARIABLES adjacency_list,   \* Graph.adjacency_list: dict node -> set of tuples
          latest_node_num,  \* Graph.latest_node_num (class attribute)
          pre,              \* adjacency_list and latest_node_num at entry of the last call
          last,             \* the last call: method, arguments, raise/return
          other,            \* adjacency_list of a second Graph instance of the process
          generated,        \* the default names generated so far, in order
          snapshot,         \* a list returned by get_neighbors / get_all_nodes that the caller kept
          pc                \* position inside a rename_node call executed statement by statement

vars == <<adjacency_list, latest_node_num, pre, last, other, generated, snapshot, pc>>

\* ---------------------------------------------------------------- bounds
MaxCounter == 2   \* add_node() without a name is called while latest_node_num <= MaxCounter
MaxEdges == 3     \* add_edge is called while the graph holds fewer than this many tuples

\* ---------------------------------------------------------------- inputs
None == <<>>
Some(x) == <<x>>

Names == {"A", "B", "Node 1"}            \* names callers pass
WeightValues == {5}                      \* numeric weights callers pass
Weights == {None} \cup {Some(w) : w \in WeightValues}
OptNames == {None} \cup {Some(n) : n \in Names}

\* ---------------------------------------------------------------- helpers
\* f"Node {Graph.latest_node_num}"
NodeName(n) == "Node " \o ToString(n)

\* dict item assignment  d[k] = v  (insert or overwrite)
SetItem(d, k, v) == [x \in (DOMAIN d) \cup {k} |-> IF x = k THEN v ELSE d[x]]

\* del d[k]
DelItem(d, k) == [x \in (DOMAIN d) \ {k} |-> d[x]]

\* the result of a call: the graph, the counter, what was raised, what was returned
\* hint: the ValueError message of remove_edge ends with "Did you mean the edge ...?"
Result(adj, num, err) ==
    [adjacency_list |-> adj, latest_node_num |-> num, err |-> err, ret |-> None,
     hint |-> FALSE]

\* ---------------------------------------------------------------- queries
\* __contains__
contains(adj, node_name) == node_name \in DOMAIN adj

\* __len__
node_count(adj) == Cardinality(DOMAIN adj)

\* get_degree: the degree, or NotFound
get_degree(adj, node_name) ==
    IF contains(adj, node_name)
    THEN [err |-> "ok", ret |-> Cardinality(adj[node_name])]
    ELSE [err |-> "NotFound", ret |-> None]

\* What a method hands to its caller is a new list, list(...), filled from
\* the graph at the call; its elements are taken as a set.  The other
\* objects a method could hand out are the graph's own: the set stored for
\* a node, or the dict's keys view, which show the graph as it is now.
NewList(elements) == [kind |-> "list", value |-> elements]
StoredSet(node_name) == [kind |-> "stored set", node |-> node_name]
KeysView == [kind |-> "keys view"]

\* the elements a caller finds in such an object when the graph is adj
Elements(object, adj) ==
    CASE object.kind = "list" -> object.value
      [] object.kind = "stored set" ->
             IF object.node \in DOMAIN adj THEN adj[object.node] ELSE {}
      [] object.kind = "keys view" -> DOMAIN adj

get_neighbors_returns_stored_set(adj, node_name) ==
    IF contains(adj, node_name)
    THEN [err |-> "ok", ret |-> Some(StoredSet(node_name))]
    ELSE [err |-> "NotFound", ret |-> None]

\* get_neighbors: list(self[node_name]), or NotFound
get_neighbors(adj, node_name) ==
    IF contains(adj, node_name)
    THEN [err |-> "ok", ret |-> Some(NewList(adj[node_name]))]
    ELSE [err |-> "NotFound", ret |-> None]

\* get_all_nodes: list(self.adjacency_list.keys())
get_all_nodes(adj) == [err |-> "ok", ret |-> Some(NewList(DOMAIN adj))]

\* edge_exists: a KeyError on self[from_node_name] is caught and answers False
edge_exists_any_weight(adj, from_node_name, to_node_name, weight) ==
    IF from_node_name \notin DOMAIN adj
    THEN FALSE
    ELSE \E t \in adj[from_node_name] : t[1] = to_node_name

edge_exists(adj, from_node_name, to_node_name, weight) ==
    IF from_node_name \notin DOMAIN adj
    THEN FALSE
    ELSE IF weight = None
         THEN \E t \in adj[from_node_name] : t[1] = to_node_name
         ELSE <<to_node_name, weight>> \in adj[from_node_name]

\* get_all_edges visits every (first_node, second_node, edge_weight) of the
\* adjacency list, node after node.
Triples(adj) == UNION {{<<n, t[1], t[2]>> : t \in adj[n]} : n \in DOMAIN adj}

visit_edge_keeps_old_mention(edge_list, first_node, second_node, edge_weight) ==
    IF <<second_node, first_node, edge_weight, FALSE>> \in edge_list
    THEN edge_list \cup {<<first_node, second_node, edge_weight, TRUE>>}
    ELSE edge_list \cup {<<first_node, second_node, edge_weight, FALSE>>}

visit_edge_loop_is_bidirectional(edge_list, first_node, second_node, edge_weight) ==
    IF <<second_node, first_node, edge_weight, FALSE>> \in edge_list
    THEN (edge_list \ {<<second_node, first_node, edge_weight, FALSE>>})
             \cup {<<first_node, second_node, edge_weight, TRUE>>}
    ELSE edge_list \cup {<<first_node, second_node, edge_weight,
                            first_node = second_node>>}

\* the body of the inner loop of get_all_edges
visit_edge(edge_list, first_node, second_node, edge_weight) ==
    IF <<second_node, first_node, edge_weight, FALSE>> \in edge_list
    THEN (edge_list \ {<<second_node, first_node, edge_weight, FALSE>>})
             \cup {<<first_node, second_node, edge_weight, TRUE>>}
    ELSE edge_list \cup {<<first_node, second_node, edge_weight, FALSE>>}

\* The loops of get_all_edges with the triples in `left` still to visit, the
\* outer loop being at the nodes in `at` (none before the first node).
\* Neither the order of the nodes (the dict's insertion order) nor the order
\* inside a set is fixed by the graph's content, so the next triple is any
\* triple left of the current node, or of any node once the current node's
\* are all visited.  The value is the set of edge lists the loops can end with.
RECURSIVE scan_edges(_, _, _)
scan_edges(left, at, edge_list) ==
    IF left = {}
    THEN {edge_list}
    ELSE LET same == {t \in left : t[1] \in at}
             next == IF same # {} THEN same ELSE left
         IN  UNION {scan_edges(left \ {t}, {t[1]},
                               visit_edge(edge_list, t[1], t[2], t[3])) : t \in next}

\* the lists get_all_edges can return, each taken as a set
get_all_edges(adj) == scan_edges(Triples(adj), {}, {})

\* ---------------------------------------------------------------- add_node
add_node_no_insert(adj, num, new_node_name) ==
    IF new_node_name # None /\ contains(adj, new_node_name[1])
    THEN Result(adj, num, "AlreadyExists")
    ELSE IF new_node_name = None
         THEN Result(adj, num + 1, "ok")
         ELSE Result(adj, num, "ok")

add_node_accepts_duplicate(adj, num, new_node_name) ==
    IF new_node_name = None
    THEN Result(SetItem(adj, NodeName(num), {}), num + 1, "ok")
    ELSE Result(SetItem(adj, new_node_name[1], {}), num, "ok")

add_node_no_increment(adj, num, new_node_name) ==
    IF new_node_name # None /\ contains(adj, new_node_name[1])
    THEN Result(adj, num, "AlreadyExists")
    ELSE IF new_node_name = None
         THEN Result(SetItem(adj, NodeName(num), {}), num, "ok")
         ELSE Result(SetItem(adj, new_node_name[1], {}), num, "ok")

\* new_node_name is None or Some(name).  None is never a key, so
\* "None in self" is False and the elif branch generates the name.
add_node(adj, num, new_node_name) ==
    IF new_node_name # None /\ contains(adj, new_node_name[1])
    THEN Result(adj, num, "AlreadyExists")
    ELSE IF new_node_name = None
         THEN Result(SetItem(adj, NodeName(num), {}), num + 1, "ok")
         ELSE Result(SetItem(adj, new_node_name[1], {}), num, "ok")

\* ---------------------------------------------------------------- delete_node
delete_node_no_purge(adj, num, deleted_node_name) ==
    IF ~contains(adj, deleted_node_name)
    THEN Result(adj, num, "NotFound")
    ELSE Result(DelItem(adj, deleted_node_name), num, "ok")

delete_node_clears_referrers(adj, num, deleted_node_name) ==
    IF ~contains(adj, deleted_node_name)
    THEN Result(adj, num, "NotFound")
    ELSE LET d == DelItem(adj, deleted_node_name)
         IN  Result([node \in DOMAIN d |->
                        IF \E t \in d[node] : t[1] = deleted_node_name
                        THEN {} ELSE d[node]],
                    num, "ok")

delete_node(adj, num, deleted_node_name) ==
    IF ~contains(adj, deleted_node_name)
    THEN Result(adj, num, "NotFound")
    ELSE LET d == DelItem(adj, deleted_node_name)
         IN  Result([node \in DOMAIN d |->
                        {t \in d[node] : t[1] # deleted_node_name}],
                    num, "ok")

\* ---------------------------------------------------------------- add_edge
add_edge_one_check(adj, num, from_node_name, to_node_name, weight, undirected_edge) ==
    IF ~contains(adj, from_node_name)
    THEN Result(adj, num, "NotFound")
    ELSE LET a1 == SetItem(adj, from_node_name,
                           adj[from_node_name] \cup {<<to_node_name, weight>>})
         IN  IF ~contains(adj, to_node_name)
             THEN Result(a1, num, "NotFound")
             ELSE IF undirected_edge
                  THEN Result(SetItem(a1, to_node_name,
                                  a1[to_node_name] \cup {<<from_node_name, weight>>}),
                              num, "ok")
                  ELSE Result(a1, num, "ok")

add_edge_always_mirrors(adj, num, from_node_name, to_node_name, weight, undirected_edge) ==
    IF ~contains(adj, from_node_name) \/ ~contains(adj, to_node_name)
    THEN Result(adj, num, "NotFound")
    ELSE LET a1 == SetItem(adj, from_node_name,
                           adj[from_node_name] \cup {<<to_node_name, weight>>})
         IN  Result(SetItem(a1, to_node_name,
                        a1[to_node_name] \cup {<<from_node_name, weight>>}),
                    num, "ok")

add_edge_toggles(adj, num, from_node_name, to_node_name, weight, undirected_edge) ==
    IF ~contains(adj, from_node_name) \/ ~contains(adj, to_node_name)
    THEN Result(adj, num, "NotFound")
    ELSE LET Toggle(set, t) == IF t \in set THEN set \ {t} ELSE set \cup {t}
             a1 == SetItem(adj, from_node_name,
                           Toggle(adj[from_node_name], <<to_node_name, weight>>))
         IN  IF undirected_edge /\ from_node_name # to_node_name
             THEN Result(SetItem(a1, to_node_name,
                             Toggle(a1[to_node_name], <<from_node_name, weight>>)),
                         num, "ok")
             ELSE Result(a1, num, "ok")

add_edge(adj, num, from_node_name, to_node_name, weight, undirected_edge) ==
    IF ~contains(adj, from_node_name)
    THEN Result(adj, num, "NotFound")
    ELSE IF ~contains(adj, to_node_name)
    THEN Result(adj, num, "NotFound")
    ELSE LET a1 == SetItem(adj, from_node_name,
                           adj[from_node_name] \cup {<<to_node_name, weight>>})
         IN  IF undirected_edge
             THEN Result(SetItem(a1, to_node_name,
                             a1[to_node_name] \cup {<<from_node_name, weight>>}),
                         num, "ok")
             ELSE Result(a1, num, "ok")

\* ---------------------------------------------------------------- remove_edge
remove_edge_never_hints(adj, num, from_node_name, to_node_name, weight, undirected_edge) ==
    IF ~edge_exists(adj, from_node_name, to_node_name, weight)
    THEN Result(adj, num, "EdgeNotFound")
    ELSE LET a1 == SetItem(adj, from_node_name,
                           adj[from_node_name] \ {<<to_node_name, weight>>})
         IN  IF undirected_edge
             THEN Result(SetItem(a1, to_node_name,
                             a1[to_node_name] \ {<<from_node_name, weight>>}),
                         num, "ok")
             ELSE Result(a1, num, "ok")

\* self[to_node_name] -= ... raises KeyError when to_node_name is no key,
\* after self[from_node_name] was already updated.
remove_edge(adj, num, from_node_name, to_node_name, weight, undirected_edge) ==
    IF ~edge_exists(adj, from_node_name, to_node_name, weight)
    THEN [Result(adj, num, "EdgeNotFound") EXCEPT
             !.hint = edge_exists(adj, to_node_name, from_node_name, weight)]
    ELSE LET a1 == SetItem(adj, from_node_name,
                           adj[from_node_name] \ {<<to_node_name, weight>>})
         IN  IF undirected_edge
             THEN IF to_node_name \notin DOMAIN a1
                  THEN Result(a1, num, "KeyError")
                  ELSE Result(SetItem(a1, to_node_name,
                                  a1[to_node_name] \ {<<from_node_name, weight>>}),
                              num, "ok")
             ELSE Result(a1, num, "ok")

\* ---------------------------------------------------------------- rename_node
rename_node_no_rewrite(adj, num, old_node_name, new_node_name) ==
    IF ~contains(adj, old_node_name)
    THEN Result(adj, num, "NotFound")
    ELSE LET added == add_node(adj, num, Some(new_node_name))
         IN  IF added.err # "ok"
             THEN added
             ELSE LET a1 == added.adjacency_list
                  IN  Result(SetItem(DelItem(a1, old_node_name), new_node_name,
                                     a1[old_node_name]),
                             added.latest_node_num, "ok")

rename_node_overwrites(adj, num, old_node_name, new_node_name) ==
    IF ~contains(adj, old_node_name)
    THEN Result(adj, num, "NotFound")
    ELSE LET a2 == SetItem(DelItem(adj, old_node_name), new_node_name,
                           adj[old_node_name])
         IN  Result([node \in DOMAIN a2 |->
                        {<<IF t[1] = old_node_name THEN new_node_name ELSE t[1],
                           t[2]>> : t \in a2[node]}],
                    num, "ok")

rename_node_forgets_weight(adj, num, old_node_name, new_node_name) ==
    IF ~contains(adj, old_node_name)
    THEN Result(adj, num, "NotFound")
    ELSE LET added == add_node(adj, num, Some(new_node_name))
         IN  IF added.err # "ok"
             THEN added
             ELSE LET a1 == added.adjacency_list
                      a2 == SetItem(DelItem(a1, old_node_name), new_node_name,
                                    a1[old_node_name])
                  IN  Result([node \in DOMAIN a2 |->
                                 {IF t[1] = old_node_name
                                  THEN <<new_node_name, None>> ELSE t : t \in a2[node]}],
                             added.latest_node_num, "ok")

rename_node(adj, num, old_node_name, new_node_name) ==
    IF ~contains(adj, old_node_name)
    THEN Result(adj, num, "NotFound")
    ELSE LET added == add_node(adj, num, Some(new_node_name))
         IN  IF added.err # "ok"
             THEN added
             ELSE LET a1 == added.adjacency_list
                      \* self[new] = self.adjacency_list.pop(old)
                      a2 == SetItem(DelItem(a1, old_node_name), new_node_name,
                                    a1[old_node_name])
                  IN  Result([node \in DOMAIN a2 |->
                                 {<<IF t[1] = old_node_name THEN new_node_name ELSE t[1],
                                    t[2]>> : t \in a2[node]}],
                             added.latest_node_num, "ok")

\* ---------------------------------------------------------------- state machine
EdgeCount(adj) == Cardinality({<<n, t>> \in (DOMAIN adj) \X (Names \X Weights) :
                                 t \in adj[n]})

\* no call is in progress or awaiting its caller
Idle == [call |-> <<"idle">>, err |-> "ok", ret |-> None, hint |-> FALSE]

\* the caller keeps no returned list
NoSnapshot == [taken |-> FALSE]

\* no rename_node call is under way
NotRenaming == [at |-> "idle"]

\* the effect of a call on the program state
Apply(call, r) ==
    /\ adjacency_list' = r.adjacency_list
    /\ latest_node_num' = r.latest_node_num
    /\ pre' = [adjacency_list |-> adjacency_list, latest_node_num |-> latest_node_num]
    /\ last' = [call |-> call, err |-> r.err, ret |-> r.ret, hint |-> r.hint]
    /\ generated' = IF call = <<"add_node", None>>
                     THEN Append(generated, NodeName(latest_node_num))
                     ELSE generated
    /\ UNCHANGED <<other, snapshot, pc>>

Init ==
    /\ adjacency_list = << >>
    /\ latest_node_num = 1
    /\ pre = [adjacency_list |-> << >>, latest_node_num |-> 1]
    /\ last = Idle
    /\ other = << >>
    /\ generated = << >>
    /\ snapshot = NoSnapshot
    /\ pc = NotRenaming

\* The caller makes one call at a time (section 5 of the specification:
\* single-threaded, synchronous), so every call starts from Idle.
AddNode ==
    /\ last = Idle
    /\ \E name \in OptNames :
        /\ name = None => latest_node_num <= MaxCounter
        /\ Apply(<<"add_node", name>>,
                 add_node(adjacency_list, latest_node_num, name))

DeleteNode ==
    /\ last = Idle
    /\ \E name \in Names :
        Apply(<<"delete_node", name>>,
              delete_node(adjacency_list, latest_node_num, name))

AddEdge ==
    /\ last = Idle
    /\ EdgeCount(adjacency_list) < MaxEdges
    /\ \E a \in Names, b \in Names, w \in Weights, u \in BOOLEAN :
        Apply(<<"add_edge", a, b, w, u>>,
              add_edge(adjacency_list, latest_node_num, a, b, w, u))

RemoveEdge ==
    /\ last = Idle
    /\ \E a \in Names, b \in Names, w \in Weights, u \in BOOLEAN :
        Apply(<<"remove_edge", a, b, w, u>>,
              remove_edge(adjacency_list, latest_node_num, a, b, w, u))

RenameNode ==
    /\ last = Idle
    /\ \E old \in Names, new \in Names :
        Apply(<<"rename_node", old, new>>,
              rename_node(adjacency_list, latest_node_num, old, new))

\* the caller has seen the outcome (the return or the ValueError) of the last
\* call and is ready to make the next one; the graph is untouched
Return ==
    /\ last # Idle
    /\ pc = NotRenaming
    /\ last' = Idle
    /\ pre' = [adjacency_list |-> adjacency_list, latest_node_num |-> latest_node_num]
    /\ UNCHANGED <<adjacency_list, latest_node_num, other, generated, snapshot, pc>>

\* add_edge and remove_edge called with undirected_edge=True only
AddEdgeUndirected ==
    /\ last = Idle
    /\ EdgeCount(adjacency_list) < MaxEdges
    /\ \E a \in Names, b \in Names, w \in Weights :
        Apply(<<"add_edge", a, b, w, TRUE>>,
              add_edge(adjacency_list, latest_node_num, a, b, w, TRUE))

RemoveEdgeUndirected ==
    /\ last = Idle
    /\ \E a \in Names, b \in Names, w \in Weights :
        Apply(<<"remove_edge", a, b, w, TRUE>>,
              remove_edge(adjacency_list, latest_node_num, a, b, w, TRUE))

\* a call of a method that only reads the graph
Query(call, err, ret) ==
    /\ pre' = [adjacency_list |-> adjacency_list, latest_node_num |-> latest_node_num]
    /\ last' = [call |-> call, err |-> err, ret |-> ret, hint |-> FALSE]
    /\ UNCHANGED <<adjacency_list, latest_node_num, other, generated, snapshot, pc>>

EdgeExists ==
    /\ last = Idle
    /\ \E a \in Names, b \in Names, w \in Weights :
        Query(<<"edge_exists", a, b, w>>, "ok",
              Some(edge_exists(adjacency_list, a, b, w)))

AllEdges ==
    /\ last = Idle
    /\ \E edge_list \in get_all_edges(adjacency_list) :
        Query(<<"get_all_edges">>, "ok", Some(edge_list))

\* a call on the second Graph instance: it works on that instance's
\* adjacency_list and on the class attribute latest_node_num
OtherApply(call, r) ==
    /\ other' = r.adjacency_list
    /\ latest_node_num' = r.latest_node_num
    /\ pre' = [adjacency_list |-> other, latest_node_num |-> latest_node_num]
    /\ last' = [call |-> call, err |-> r.err, ret |-> r.ret, hint |-> r.hint]
    /\ generated' = IF call = <<"other.add_node", None>>
                     THEN Append(generated, NodeName(latest_node_num))
                     ELSE generated
    /\ UNCHANGED <<adjacency_list, snapshot, pc>>

OtherAddNode ==
    /\ last = Idle
    /\ \E name \in OptNames :
        /\ name = None => latest_node_num <= MaxCounter
        /\ OtherApply(<<"other.add_node", name>>,
                      add_node(other, latest_node_num, name))

OtherDeleteNode ==
    /\ last = Idle
    /\ \E name \in Names :
        OtherApply(<<"other.delete_node", name>>,
                   delete_node(other, latest_node_num, name))

\* Graph(): the second instance is replaced by a newly constructed one;
\* __init__ sets only self.adjacency_list
NewGraph ==
    /\ last = Idle
    /\ OtherApply(<<"other.__init__">>, Result(<< >>, latest_node_num, "ok"))

\* the method a call tuple names, applied to its arguments
Exec(adj, num, call) ==
    CASE call[1] = "add_node" -> add_node(adj, num, call[2])
      [] call[1] = "delete_node" -> delete_node(adj, num, call[2])
      [] call[1] = "add_edge" -> add_edge(adj, num, call[2], call[3], call[4], call[5])
      [] call[1] = "remove_edge" ->
             remove_edge(adj, num, call[2], call[3], call[4], call[5])
      [] call[1] = "rename_node" -> rename_node(adj, num, call[2], call[3])

\* one of the given calls is made
CallAmong(calls) ==
    /\ last = Idle
    /\ \E call \in calls :
        Apply(call, Exec(adjacency_list, latest_node_num, call))

\* The callers that keep a returned list add and remove unweighted edges.
KeeperAddNode ==
    CallAmong({<<"add_node", name>> :
                  name \in {n \in {None} \cup {Some(x) : x \in Names} :
                               n = None => latest_node_num <= MaxCounter}})

KeeperDeleteNode == CallAmong({<<"delete_node", name>> : name \in Names})

KeeperAddEdge ==
    /\ EdgeCount(adjacency_list) < MaxEdges
    /\ CallAmong({<<"add_edge", a, b, None, u>> :
                     a \in Names, b \in Names, u \in BOOLEAN})

KeeperRemoveEdge ==
    CallAmong({<<"remove_edge", a, b, None, u>> :
                  a \in Names, b \in Names, u \in BOOLEAN})

KeeperRenameNode ==
    CallAmong({<<"rename_node", old, new>> :
                  old \in Names, new \in Names})

\* the caller calls get_neighbors or get_all_nodes and keeps what it returns
Keep(call, r) ==
    /\ pre' = [adjacency_list |-> adjacency_list, latest_node_num |-> latest_node_num]
    /\ last' = [call |-> call, err |-> r.err, ret |-> r.ret, hint |-> FALSE]
    /\ snapshot' = IF r.err = "ok"
                    THEN [taken |-> TRUE, object |-> r.ret[1],
                          returned |-> Elements(r.ret[1], adjacency_list)]
                    ELSE snapshot
    /\ UNCHANGED <<adjacency_list, latest_node_num, other, generated, pc>>

Neighbors ==
    /\ last = Idle
    /\ \E name \in Names :
        Keep(<<"get_neighbors", name>>, get_neighbors(adjacency_list, name))

AllNodes ==
    /\ last = Idle
    /\ Keep(<<"get_all_nodes">>, get_all_nodes(adjacency_list))

Next == AddNode \/ DeleteNode \/ AddEdge \/ RemoveEdge \/ RenameNode \/ Return

Spec == Init /\ [][Next]_vars

\* callers that only ever use undirected edges
NextUndirected ==
    AddNode \/ DeleteNode \/ AddEdgeUndirected \/ RemoveEdgeUndirected
        \/ RenameNode \/ Return

SpecUndirected == Init /\ [][NextUndirected]_vars

\* callers that also query the graph
NextQueries == Next \/ EdgeExists \/ AllEdges

SpecQueries == Init /\ [][NextQueries]_vars

\* two Graph instances of one process, sharing Graph.latest_node_num; the
\* node methods are the ones that reach the counter (rename_node through
\* add_node)
NextShared ==
    AddNode \/ DeleteNode \/ RenameNode \/ OtherAddNode \/ OtherDeleteNode
        \/ NewGraph \/ Return

SpecShared == Init /\ [][NextShared]_vars

\* a caller that keeps returned lists while it goes on editing the graph
NextKeeper ==
    KeeperAddNode \/ KeeperDeleteNode \/ KeeperAddEdge \/ KeeperRemoveEdge
        \/ KeeperRenameNode \/ Neighbors \/ AllNodes \/ Return

SpecKeeper == Init /\ [][NextKeeper]_vars

\* ---------------------------------------------------------------- properties
\* the last call, as the properties read it
Method == last.call[1]
Ok == last.err = "ok"
Before == pre.adjacency_list

\* the name a successful add_node(arg) used: the supplied one, or the one
\* generated from the counter's value at the call
FinalName(arg) == IF arg # None THEN arg[1] ELSE NodeName(pre.latest_node_num)

\* C1: no dangling references. In every reachable state, every tuple (B, w)
\* in the adjacency set of any node A has B as a current node of the graph.
C1_NoDanglingReferences ==
    \A a \in DOMAIN adjacency_list :
        \A t \in adjacency_list[a] : t[1] \in DOMAIN adjacency_list

\* a node that others referenced was deleted, and edges remain in the graph
C1_Witness ==
    /\ Method = "delete_node" /\ Ok
    /\ \E x \in DOMAIN Before \ {last.call[2]} :
           \E t \in Before[x] : t[1] = last.call[2]
    /\ \E a \in DOMAIN adjacency_list : adjacency_list[a] # {}

\* C2 (as stated): when callers use only undirected edges, the adjacency
\* relation is symmetric in every reachable state: (B, w) is in A's set
\* iff (A, w) is in B's set.
C2_MirroredEdges ==
    \A a \in DOMAIN adjacency_list :
        \A t \in adjacency_list[a] :
            /\ t[1] \in DOMAIN adjacency_list
            /\ <<a, t[2]>> \in adjacency_list[t[1]]

\* C3: a call that raises leaves the node set and every adjacency set
\* exactly as they were before the call.
C3_FailureLeavesGraphUnchanged ==
    last.err # "ok" => adjacency_list = Before

\* add_edge raised NotFound for a missing second endpoint while the first
\* endpoint exists and has neighbours
C3_Witness ==
    /\ Method = "add_edge" /\ last.err = "NotFound"
    /\ last.call[2] \in DOMAIN Before
    /\ last.call[3] \notin DOMAIN Before
    /\ Before[last.call[2]] # {}

\* C4 (as stated): remove_edge(A, B, weight, undirected) raises EdgeNotFound
\* whenever the tuple (B, weight) is not in A's adjacency set (weight None
\* for an omitted weight), and a call that returns found the tuple in A's
\* set and removed it.
C4_RemoveEdgeRemovesTuple ==
    Method = "remove_edge" =>
        LET a == last.call[2]
            t == <<last.call[3], last.call[4]>>
            present == a \in DOMAIN Before /\ t \in Before[a]
        IN  /\ ~present => last.err = "EdgeNotFound"
            /\ Ok => present /\ t \notin adjacency_list[a]

\* C5 (as stated): a successful add_node returns the final identifier used.
C5_AddNodeReturnsFinalId ==
    (Method = "add_node" /\ Ok) => last.ret = Some(FinalName(last.call[2]))

\* C5 (amended): a successful add_node returns None; the final identifier
\* used (the supplied one, or "Node <n>" for the counter value n at the
\* call) is a node of the graph afterwards, with an empty adjacency set.
C5_AddNodeReturnsNone ==
    (Method = "add_node" /\ Ok) =>
        /\ last.ret = None
        /\ FinalName(last.call[2]) \in DOMAIN adjacency_list
        /\ adjacency_list[FinalName(last.call[2])] = {}

\* add_node() without a name succeeded and inserted a generated name that
\* was not a node before
C5_Witness ==
    /\ Method = "add_node" /\ Ok
    /\ last.call[2] = None
    /\ NodeName(pre.latest_node_num) \notin DOMAIN Before
    /\ NodeName(pre.latest_node_num) \in DOMAIN adjacency_list

\* C6: add_node(n) with n not in the graph succeeds, and afterwards
\* contains(n) is true, degree(n) is 0 and node_count has grown by exactly
\* one; with n already in the graph it raises AlreadyExists.
C6_AddNodeNamed ==
    (Method = "add_node" /\ last.call[2] # None) =>
        LET n == last.call[2][1]
        IN  IF n \in DOMAIN Before
            THEN last.err = "AlreadyExists"
            ELSE /\ Ok
                 /\ contains(adjacency_list, n)
                 /\ get_degree(adjacency_list, n) = [err |-> "ok", ret |-> 0]
                 /\ node_count(adjacency_list) = node_count(Before) + 1

\* a named node was added to a graph that already held nodes and edges
C6_Witness ==
    /\ Method = "add_node" /\ Ok
    /\ last.call[2] # None
    /\ \E a \in DOMAIN Before : Before[a] # {}
    /\ last.call[2][1] \notin DOMAIN Before

\* C7: delete_node(d) on a present node d removes d from the node set and
\* purges every tuple (d, w) from every remaining node's adjacency set,
\* leaving every other tuple of every remaining node unchanged; it raises
\* NotFound when d is absent.
C7_DeleteNode ==
    Method = "delete_node" =>
        LET d == last.call[2]
        IN  IF d \in DOMAIN Before
            THEN /\ Ok
                 /\ DOMAIN adjacency_list = DOMAIN Before \ {d}
                 /\ \A x \in DOMAIN adjacency_list :
                        adjacency_list[x] = {t \in Before[x] : t[1] # d}
            ELSE last.err = "NotFound"

\* the deleted node was referenced by another node that also held a tuple
\* not naming the deleted node
C7_Witness ==
    /\ Method = "delete_node" /\ Ok
    /\ \E x \in DOMAIN Before \ {last.call[2]} :
           /\ \E t \in Before[x] : t[1] = last.call[2]
           /\ \E t \in Before[x] : t[1] # last.call[2]

\* old replaced by new, every other name kept
Relabel(name, old, new) == IF name = old THEN new ELSE name

\* C8: after a successful rename_node(old, new) the graph is the original
\* graph with every occurrence of old, as a node key and as a neighbour in
\* any tuple (a self-loop on old included), replaced by new, weights and
\* directions kept; old is no node any more and no tuple references it;
\* edges not incident to old are unchanged.
C8_RenameRelabels ==
    (Method = "rename_node" /\ Ok) =>
        LET old == last.call[2]
            new == last.call[3]
        IN  /\ DOMAIN adjacency_list = {Relabel(n, old, new) : n \in DOMAIN Before}
            /\ \A n \in DOMAIN Before :
                   adjacency_list[Relabel(n, old, new)] =
                       {<<Relabel(t[1], old, new), t[2]>> : t \in Before[n]}
            /\ old \notin DOMAIN adjacency_list
            /\ \A n \in DOMAIN adjacency_list :
                   \A t \in adjacency_list[n] : t[1] # old

\* the renamed node had a self-loop and was referenced by another node
C8_Witness ==
    /\ Method = "rename_node" /\ Ok
    /\ \E t \in Before[last.call[2]] : t[1] = last.call[2]
    /\ \E x \in DOMAIN Before \ {last.call[2]} :
           \E t \in Before[x] : t[1] = last.call[2]

\* C9: rename_node(old, new) raises NotFound when old is not a node, and
\* (old being a node) raises AlreadyExists whenever new is already a node,
\* the self-rename new = old included; in each of these failures the graph
\* is unchanged.
C9_RenameFailures ==
    Method = "rename_node" =>
        LET old == last.call[2]
            new == last.call[3]
        IN  /\ old \notin DOMAIN Before =>
                   last.err = "NotFound" /\ adjacency_list = Before
            /\ (old \in DOMAIN Before /\ new \in DOMAIN Before) =>
                   last.err = "AlreadyExists" /\ adjacency_list = Before

\* a node with edges was renamed to itself
C9_Witness ==
    /\ Method = "rename_node"
    /\ last.call[2] = last.call[3]
    /\ last.call[2] \in DOMAIN Before
    /\ Before[last.call[2]] # {}
    /\ last.err = "AlreadyExists"

\* C10: with A and B in the graph, add_edge(A, B, w, undirected=True) makes
\* edge_exists(A, B, w) and edge_exists(B, A, w) true, and
\* add_edge(A, B, w, undirected=False) adds only (B, w) to A's adjacency
\* set and leaves every other node's adjacency set (B's, when B is not A)
\* unchanged; add_edge raises NotFound if either endpoint is absent.
C10_AddEdge ==
    Method = "add_edge" =>
        LET a == last.call[2]
            b == last.call[3]
            w == last.call[4]
            undirected == last.call[5]
        IN  IF a \notin DOMAIN Before \/ b \notin DOMAIN Before
            THEN last.err = "NotFound"
            ELSE /\ Ok
                 /\ undirected =>
                        /\ edge_exists(adjacency_list, a, b, w)
                        /\ edge_exists(adjacency_list, b, a, w)
                        /\ <<b, w>> \in adjacency_list[a]
                        /\ <<a, w>> \in adjacency_list[b]
                 /\ ~undirected =>
                        /\ DOMAIN adjacency_list = DOMAIN Before
                        /\ adjacency_list[a] = Before[a] \cup {<<b, w>>}
                        /\ \A x \in DOMAIN Before \ {a} :
                               adjacency_list[x] = Before[x]

\* a directed edge A -> B between two different nodes was added where B's
\* set did not hold the mirror tuple, after an undirected edge was in place
C10_Witness ==
    /\ Method = "add_edge" /\ Ok
    /\ ~last.call[5]
    /\ last.call[2] # last.call[3]
    /\ <<last.call[3], last.call[4]>> \notin Before[last.call[2]]
    /\ <<last.call[2], last.call[4]>> \notin adjacency_list[last.call[3]]
    /\ \E x \in DOMAIN Before : \E t \in Before[x] :
           t[1] # x /\ <<x, t[2]>> \in Before[t[1]]

\* C11: add_edge is idempotent. Repeating the add_edge call just made, with
\* the same arguments, gives the same outcome and leaves every adjacency
\* set and every degree as the first call left them; the tuples A's set
\* held before (edges to B of other weights among them) stay beside (B, w)
\* as distinct tuples.
C11_AddEdgeIdempotent ==
    Method = "add_edge" =>
        LET a == last.call[2]
            b == last.call[3]
            w == last.call[4]
            again == add_edge(adjacency_list, latest_node_num,
                              a, b, w, last.call[5])
        IN  /\ again.err = last.err
            /\ again.adjacency_list = adjacency_list
            /\ \A n \in DOMAIN adjacency_list :
                   get_degree(again.adjacency_list, n) = get_degree(adjacency_list, n)
            /\ Ok =>
                   /\ Before[a] \cup {<<b, w>>} \subseteq adjacency_list[a]
                   /\ \A w2 \in Weights \ {w} :
                          <<b, w2>> \in Before[a] =>
                              Cardinality(adjacency_list[a] \cap {<<b, w>>, <<b, w2>>}) = 2

\* an edge was added a second time, beside an edge to the same neighbour
\* of another weight
C11_Witness ==
    /\ Method = "add_edge" /\ Ok
    /\ <<last.call[3], last.call[4]>> \in Before[last.call[2]]
    /\ \E w2 \in Weights \ {last.call[4]} :
           <<last.call[3], w2>> \in Before[last.call[2]]

\* C12: edge_exists(A, B, weight) never raises and never changes the graph;
\* it answers False when A is no node; with the weight omitted it answers
\* True iff some tuple (B, w), any w, is in A's set; with a weight given it
\* answers True iff the exact tuple (B, weight) is in A's set.
C12_EdgeExists ==
    Method = "edge_exists" =>
        LET a == last.call[2]
            b == last.call[3]
            w == last.call[4]
        IN  /\ Ok
            /\ adjacency_list = Before
            /\ last.ret = Some(/\ a \in DOMAIN Before
                               /\ IF w = None
                                  THEN b \in {t[1] : t \in Before[a]}
                                  ELSE <<b, w>> \in Before[a])

\* edge_exists with a weight answered False for a pair that is linked only
\* by a tuple of another weight
C12_Witness ==
    /\ Method = "edge_exists"
    /\ last.call[4] # None
    /\ last.ret = Some(FALSE)
    /\ last.call[2] \in DOMAIN Before
    /\ \E t \in Before[last.call[2]] : t[1] = last.call[3]

\* the list get_all_edges returned, as a set
EdgeList == last.ret[1]

\* (B, w) is in A's set and (A, w) is in B's set
Mirrored(adj, a, b, w) ==
    /\ a \in DOMAIN adj /\ b \in DOMAIN adj
    /\ <<b, w>> \in adj[a] /\ <<a, w>> \in adj[b]

\* the entry of a one-directional tuple: (A, B, w, False) and nothing else
OneDirectional(a, b, w) ==
    /\ <<a, b, w, FALSE>> \in EdgeList
    /\ EdgeList \cap {<<a, b, w, TRUE>>, <<b, a, w, TRUE>>} = {}

\* the entry of a mirrored pair: one of (A, B, w, True), (B, A, w, True)
Bidirectional(a, b, w) ==
    /\ Cardinality(EdgeList \cap {<<a, b, w, TRUE>>, <<b, a, w, TRUE>>}) = 1
    /\ EdgeList \cap {<<a, b, w, FALSE>>, <<b, a, w, FALSE>>} = {}

\* C13 (as stated): for any endpoints A and B, A = B included, an undirected
\* edge in place ((B, w) in A's set and (A, w) in B's set) has exactly one
\* entry in all_edges, (A, B, w, True) or (B, A, w, True); a tuple (B, w) of
\* A whose mirror is absent appears exactly once as (A, B, w, False).
C13_UndirectedEdgeIsOneTrueEntry ==
    Method = "get_all_edges" =>
        \A a \in DOMAIN Before : \A t \in Before[a] :
            IF Mirrored(Before, a, t[1], t[2])
            THEN Bidirectional(a, t[1], t[2])
            ELSE OneDirectional(a, t[1], t[2])

\* C13 (amended): as stated for two different nodes A and B; a self-loop
\* (A, w) in A's set, added directed or undirected, appears exactly once
\* as (A, A, w, False).
C13_AllEdgesCollapse ==
    Method = "get_all_edges" =>
        \A a \in DOMAIN Before : \A t \in Before[a] :
            IF t[1] # a /\ Mirrored(Before, a, t[1], t[2])
            THEN Bidirectional(a, t[1], t[2])
            ELSE OneDirectional(a, t[1], t[2])

\* all_edges reported a graph holding an undirected edge between two
\* different nodes and a self-loop
C13_Witness ==
    /\ Method = "get_all_edges"
    /\ \E a \in DOMAIN Before : \E t \in Before[a] :
           /\ t[1] # a /\ Mirrored(Before, a, t[1], t[2])
           /\ <<a, t[1], t[2], TRUE>> \in EdgeList
    /\ \E a \in DOMAIN Before : \E t \in Before[a] : t[1] = a

\* the sum of get_degree(n) over the nodes given
RECURSIVE SumDegrees(_, _)
SumDegrees(adj, nodes) ==
    IF nodes = {}
    THEN 0
    ELSE LET n == CHOOSE x \in nodes : TRUE
         IN  get_degree(adj, n).ret + SumDegrees(adj, nodes \ {n})

\* C20: all_edges accounts for every adjacency tuple exactly once. The sum
\* of degree(n) over all nodes equals the number of entries with
\* is_bidirectional False plus twice the number with is_bidirectional True,
\* and an entry (A, B, w, True) is reported only when (B, w) is in A's set
\* and (A, w) is in B's set.
C20_AllEdgesAccounting ==
    Method = "get_all_edges" =>
        /\ SumDegrees(Before, DOMAIN Before) =
               Cardinality({e \in EdgeList : ~e[4]})
                   + 2 * Cardinality({e \in EdgeList : e[4]})
        /\ \A e \in EdgeList : e[4] => Mirrored(Before, e[1], e[2], e[3])

\* all_edges reported a bidirectional entry, a one-directional entry between
\* two different nodes and a self-loop
C20_Witness ==
    /\ Method = "get_all_edges"
    /\ \E e \in EdgeList : e[4]
    /\ \E e \in EdgeList : ~e[4] /\ e[1] # e[2]
    /\ \E e \in EdgeList : e[1] = e[2]

\* C16: when remove_edge(A, B, weight) raises EdgeNotFound, the message
\* carries the reverse-direction hint iff edge_exists(B, A, weight) is true
\* at the call (any tuple (A, w) in B's set when the weight is omitted, the
\* exact tuple otherwise); with or without the hint the call fails and the
\* graph is unchanged.
C16_ReverseHint ==
    Method = "remove_edge" =>
        LET a == last.call[2]
            b == last.call[3]
            w == last.call[4]
            reverse == /\ b \in DOMAIN Before
                       /\ IF w = None
                          THEN \E t \in Before[b] : t[1] = a
                          ELSE <<a, w>> \in Before[b]
        IN  /\ last.hint => last.err = "EdgeNotFound"
            /\ last.err = "EdgeNotFound" =>
                   /\ last.hint <=> reverse
                   /\ reverse <=> edge_exists(Before, b, a, w)
                   /\ adjacency_list = Before

\* remove_edge(A, B) failed while only the directed edge B -> A existed,
\* and the message carried the hint
C16_Witness ==
    /\ Method = "remove_edge"
    /\ last.err = "EdgeNotFound"
    /\ last.hint
    /\ last.call[2] # last.call[3]
    /\ adjacency_list[last.call[3]] # {}

\* C18 (as stated): every successful add_node, with or without a supplied
\* id, increases node_count by exactly one and leaves every node that was
\* already there, and its adjacency set, unchanged; a generated "Node <n>"
\* is never the name of a node already in the graph.
C18_AddNodeAddsOneNode ==
    (Method = "add_node" /\ Ok) =>
        /\ node_count(adjacency_list) = node_count(Before) + 1
        /\ \A n \in DOMAIN Before :
               n \in DOMAIN adjacency_list /\ adjacency_list[n] = Before[n]
        /\ last.call[2] = None => NodeName(pre.latest_node_num) \notin DOMAIN Before

\* C19: rename round trip. With a a node and b no node, rename_node(a, b)
\* succeeds, and rename_node(b, a) on the graph it left succeeds and gives
\* back exactly the original graph: the same nodes with the same adjacency
\* sets, self-loops and parallel edges of different weights included.
C19_RenameRoundTrip ==
    Method = "rename_node" =>
        LET a == last.call[2]
            b == last.call[3]
            back == rename_node(adjacency_list, latest_node_num, b, a)
        IN  /\ (a \in DOMAIN Before /\ b \notin DOMAIN Before) => Ok
            /\ Ok => back.err = "ok" /\ back.adjacency_list = Before

\* the renamed node had a self-loop, was referenced by another node, and
\* held two edges to one neighbour with different weights
C19_Witness ==
    /\ Method = "rename_node" /\ Ok
    /\ \E t \in Before[last.call[2]] : t[1] = last.call[2]
    /\ \E x \in DOMAIN Before \ {last.call[2]} :
           \E t \in Before[x] : t[1] = last.call[2]
    /\ \E t, u \in Before[last.call[2]] : t[1] = u[1] /\ t[2] # u[2]

\* the calls that generate a default name
Autogenerating == {<<"add_node", None>>, <<"other.add_node", None>>}

\* C14: default names come from one counter shared by all Graph instances.
\* The counter never decreases and is never reset, whatever the calls and
\* whichever the instance: it is one more than the number of names
\* generated so far. An add_node call without an id inserts "Node <n>" for
\* the counter's value n at the call and increments the counter; no other
\* call changes it. No two generated names are equal.
C14_SharedCounter ==
    /\ latest_node_num = Len(generated) + 1
    /\ latest_node_num >= pre.latest_node_num
    /\ \A i, j \in 1..Len(generated) : i # j => generated[i] # generated[j]
    /\ IF last.call \in Autogenerating
       THEN /\ Ok
            /\ latest_node_num = pre.latest_node_num + 1
            /\ generated[Len(generated)] = NodeName(pre.latest_node_num)
            /\ NodeName(pre.latest_node_num) \in
                   DOMAIN (IF last.call[1] = "add_node"
                           THEN adjacency_list ELSE other)
       ELSE latest_node_num = pre.latest_node_num

\* a name was generated on the first instance and the next one on the
\* second instance
C14_Witness ==
    /\ last.call = <<"other.add_node", None>>
    /\ Len(generated) = 2
    /\ generated[1] \in DOMAIN adjacency_list
    /\ generated[2] \in DOMAIN other
    /\ generated[1] \notin DOMAIN other

\* C15: neighbors(id) and all_nodes() return snapshots. The elements of a
\* returned list are those of the graph at the call, and they stay so
\* whatever add_node, delete_node, add_edge, remove_edge and rename_node
\* calls are applied to the graph afterwards; neighbors raises NotFound
\* when id is absent.
C15_Snapshots ==
    /\ snapshot.taken =>
           Elements(snapshot.object, adjacency_list) = snapshot.returned
    /\ Method = "get_neighbors" =>
           IF last.call[2] \in DOMAIN Before
           THEN Ok /\ Elements(last.ret[1], Before) = Before[last.call[2]]
           ELSE last.err = "NotFound" /\ last.ret = None
    /\ Method = "get_all_nodes" =>
           Ok /\ Elements(last.ret[1], Before) = DOMAIN Before

\* the caller holds a non-empty list of neighbours returned earlier, and
\* after the editing call just made no node of the graph has these neighbours
C15_Witness ==
    /\ snapshot.taken
    /\ snapshot.returned # {}
    /\ snapshot.returned \cap Names = {}
    /\ Method \in {"add_edge", "remove_edge", "delete_node", "rename_node"}
    /\ Ok
    /\ \A n \in DOMAIN adjacency_list :
           adjacency_list[n] # snapshot.returned

\* ------------------------------------------- rename_node, statement by statement
\* line 363: if old_node_name not in self
rename_check_old(adj, old_node_name) == contains(adj, old_node_name)

rename_add_new_skipped(adj, num, new_node_name) == Result(adj, num, "ok")

\* line 367: self.add_node(new_node_name)
rename_add_new(adj, num, new_node_name) == add_node(adj, num, Some(new_node_name))

\* line 370, right-hand side: self.adjacency_list.pop(old_node_name)
rename_pop_old(adj, old_node_name) ==
    [adjacency_list |-> DelItem(adj, old_node_name), popped |-> adj[old_node_name]]

\* line 370, assignment: self[new_node_name] = <the popped set>
rename_set_new(adj, new_node_name, popped) == SetItem(adj, new_node_name, popped)

\* lines 375-387: one round of the loop over the nodes
rename_rewrite(adj, node, old_node_name, new_node_name) ==
    SetItem(adj, node,
            {<<IF t[1] = old_node_name THEN new_node_name ELSE t[1], t[2]>> :
                t \in adj[node]})

\* a rename_node call that has not returned yet
Running(old, new) ==
    [call |-> <<"rename_node", old, new>>, err |-> "running", ret |-> None,
     hint |-> FALSE]

Finished(err) == [last EXCEPT !.err = err]

RenameCall ==
    /\ last = Idle
    /\ pc = NotRenaming
    /\ \E old \in Names, new \in Names :
        last' = Running(old, new)
    /\ pc' = [at |-> "check"]
    /\ pre' = [adjacency_list |-> adjacency_list, latest_node_num |-> latest_node_num]
    /\ UNCHANGED <<adjacency_list, latest_node_num, other, generated, snapshot>>

RenameCheckOld ==
    /\ pc.at = "check"
    /\ IF rename_check_old(adjacency_list, last.call[2])
       THEN pc' = [at |-> "add"] /\ UNCHANGED last
       ELSE pc' = NotRenaming /\ last' = Finished("NotFound")
    /\ UNCHANGED <<adjacency_list, latest_node_num, pre, other, generated, snapshot>>

RenameAddNew ==
    /\ pc.at = "add"
    /\ LET r == rename_add_new(adjacency_list, latest_node_num, last.call[3])
       IN  /\ adjacency_list' = r.adjacency_list
           /\ latest_node_num' = r.latest_node_num
           /\ IF r.err = "ok"
              THEN pc' = [at |-> "pop"] /\ UNCHANGED last
              ELSE pc' = NotRenaming /\ last' = Finished(r.err)
    /\ UNCHANGED <<pre, other, generated, snapshot>>

RenamePopOld ==
    /\ pc.at = "pop"
    /\ LET r == rename_pop_old(adjacency_list, last.call[2])
       IN  /\ adjacency_list' = r.adjacency_list
           /\ pc' = [at |-> "set", popped |-> r.popped]
    /\ UNCHANGED <<latest_node_num, pre, last, other, generated, snapshot>>

RenameSetNew ==
    /\ pc.at = "set"
    /\ adjacency_list' = rename_set_new(adjacency_list, last.call[3], pc.popped)
    /\ pc' = [at |-> "loop", todo |-> DOMAIN adjacency_list']
    /\ UNCHANGED <<latest_node_num, pre, last, other, generated, snapshot>>

\* the loop visits the keys in the dict's order; the rounds touch different
\* keys, so that every order is allowed here
RenameRewrite ==
    /\ pc.at = "loop"
    /\ \E node \in pc.todo :
        /\ adjacency_list' = rename_rewrite(adjacency_list, node,
                                            last.call[2], last.call[3])
        /\ pc' = [pc EXCEPT !.todo = @ \ {node}]
    /\ UNCHANGED <<latest_node_num, pre, last, other, generated, snapshot>>

RenameReturn ==
    /\ pc.at = "loop"
    /\ pc.todo = {}
    /\ pc' = NotRenaming
    /\ last' = Finished("ok")
    /\ UNCHANGED <<adjacency_list, latest_node_num, pre, other, generated, snapshot>>

NextRenameSteps ==
    \/ AddNode
    \/ AddEdge
    \/ DeleteNode
    \/ RenameCall
    \/ RenameCheckOld
    \/ RenameAddNew
    \/ RenamePopOld
    \/ RenameSetNew
    \/ RenameRewrite
    \/ RenameReturn
    \/ Return

SpecRenameSteps == Init /\ [][NextRenameSteps]_vars

\* the rename_node call under way has passed both of its checks
Committed == pc.at \in {"pop", "set", "loop"}

OldIsNode == last.call[2] \in DOMAIN adjacency_list
NewIsNode == last.call[3] \in DOMAIN adjacency_list

\* C17 as stated: in no state between the statements of a successful
\* rename_node(old, new), and in no state after it, are old and new both
\* nodes, and in no such state is neither of them a node.
C17_NeverBothNeverNeither ==
    (Committed \/ (Method = "rename_node" /\ Ok)) => (OldIsNode # NewIsNode)

\* C17, amended: during a successful rename_node(old, new) and after it at
\* least one of old and new is a node. Both are nodes exactly between
\* add_node(new) and the pop of old; from the pop on, and after the call,
\* new is a node and old is not. The call ends in the graph that the call
\* taken as one step gives.
C17_RenameMembership ==
    /\ pc.at \in {"check", "add"} => adjacency_list = Before
    /\ pc.at = "pop" => OldIsNode /\ NewIsNode
    /\ pc.at \in {"set", "loop"} => NewIsNode /\ ~OldIsNode
    /\ (Method = "rename_node" /\ Ok) =>
           /\ NewIsNode /\ ~OldIsNode
           /\ adjacency_list =
                  rename_node(Before, pre.latest_node_num,
                              last.call[2], last.call[3]).adjacency_list

\* add_node(new) has run and old, which has edges, is not popped yet
C17_Witness ==
    /\ pc.at = "pop"
    /\ OldIsNode
    /\ NewIsNode
    /\ adjacency_list[last.call[2]] # {}

====
